---- MODULE Spec2Model ----
(***************************************************************************)
(* Model of bin/UPCgen/macros/convert_UGHEPMC2LHE.cpp: the converter from  *)
(* the UPCGen HEPMC event listing to the Les Houches Event format.         *)
(*                                                                         *)
(* The input stream is produced by the environment one line per read; a    *)
(* line is modelled by the properties the code tests on it (its prefix,    *)
(* whether it holds the end marker, whether it tokenizes, and its fields). *)
(* Floating values are modelled by even integers, on which the halving of  *)
(* line 82-83 is exact as it is over the reals.                            *)
(***************************************************************************)
EXTENDS Integers, Sequences, FiniteSets, TLC

\* ------------------------------------------------------------------ bounds
MaxLines == 6   \* the input stream holds at most this many lines
MaxPar == 2     \* largest particle count an E line declares

\* --------------------------------------------------------- program constants
FINAL == 1
HAS_DAUGHTER == 2
INCOMING == -1
PhotonPdg == 22
SubprocessId == 81
UsageArgc == 4
DefaultFidXsec == 1
DefaultTotXsec == 3

VARIABLES
  pc,        \* position of the run
  argc,      \* main's argument count
  line,      \* std::string line: the line last read
  nRead,     \* number of lines taken from inFile so far
  inEvents,  \* the E and P lines accepted so far, grouped by event
  nPar,      \* declared particle count of the event being read
  iPar,      \* loop index of the particle loop
  parV,      \* the particle tuples of the event being read
  xsecFile,  \* the values held by xsec.out beside the input, <<>> if absent
  xsec,      \* <<fidxsec, totxsec>>
  outFile,   \* lines written to the output file, <<>> when none
  outOpen,   \* the output file has been created (and truncated)
  nEvt,      \* number of events written
  err        \* message stage of the exception thrown, "none" if none

vars == <<pc, argc, line, nRead, inEvents, nPar, iPar, parV, xsecFile, xsec,
          outFile, outOpen, nEvt, err>>

\* ------------------------------------------------------------------ inputs
\* pdg id, 4-momentum, mass field and status field of a P line: one along
\* the beam axis, and one with transverse momentum and |pz| above its energy
OnAxis ==
  [pdgId |-> 11, px |-> 0, py |-> 0, pz |-> 2, en |-> 4, mass |-> 0, status |-> 1]

Kinematics ==
  { OnAxis,
    [pdgId |-> -11, px |-> 2, py |-> 0, pz |-> -4, en |-> 2, mass |-> 2, status |-> 2] }

\* a P line may also carry a negative energy
\* the on-axis particle with another mass field and status field
OnAxisOtherMass == [OnAxis EXCEPT !.mass = 2, !.status = 3]

NegativeEnergy ==
  [pdgId |-> 13, px |-> 0, py |-> -2, pz |-> 0, en |-> -2, mass |-> 4, status |-> 4]

\* E line: event index, vertex count, particle count
ELineOf(i, v, n) == [kind |-> "E", iEvt |-> i, nVtx |-> v, nPar |-> n]

ELine(n) == ELineOf(1, 0, n)

\* U line: momentum unit, length unit
ULine(mu, lu) == [kind |-> "U", momentumUnit |-> mu, lengthUnit |-> lu]

PLine(i, m, k) ==
  [kind |-> "P", parI |-> i, momI |-> m, pdgId |-> k.pdgId, px |-> k.px,
   py |-> k.py, pz |-> k.pz, en |-> k.en, mass |-> k.mass, status |-> k.status]

\* "Ebad": begins with "E " but does not tokenize as an event line;
\* "text": any other text that tokenizes as none of E, U, P (HepMC banner,
\* vertex line, truncated P line); "empty": blank line;
\* "END": a line holding END_EVENT_LISTING.
OtherLines ==
  { [kind |-> k] : k \in {"Ebad", "text", "empty", "END"} } \cup
  { ULine("GEV", "MM"), ULine("MEV", "CM") }

\* P lines: every position with every parent below it and each kinematics,
\* every position with each parent not below it, a first particle of
\* negative energy and one of another mass and status field; E lines of each
\* particle count, and one of another event index and vertex count
TrackLines ==
  { PLine(i, m, k) : i \in 1..MaxPar, m \in (-1)..MaxPar, k \in Kinematics }

Lines ==
  { ELine(n) : n \in (-1)..MaxPar } \cup OtherLines \cup
  { l \in TrackLines : l.momI < l.parI \/ l.pdgId = OnAxis.pdgId } \cup
  { PLine(1, 0, NegativeEnergy), PLine(1, 0, OnAxisOtherMass), ELineOf(7, 3, 1) }

EmptyLine == [kind |-> "empty"]

\* std::atof(argv[2]), std::atof(argv[3])
BeamEnergies == <<6800, 6800>>

\* No xsec.out beside the input, or one holding two values
XsecFiles == { <<>>, <<5, 7>> }

\* ----------------------------------------------------------- line predicates
\* the test of line 48 inverted
HasEndMarkerInverted(l) == l.kind # "END"

\* line 48: line.rfind("END_EVENT_LISTING") != npos
HasEndMarker(l) == l.kind = "END"

StartsWithE(l) == l.kind \in {"E", "Ebad"}

ParsesAsEvent(l) == l.kind = "E"

\* the label of the U line left unchecked
ParsesAnyLabel(l) == l.kind # "empty"

ParsesAsUnits(l) == l.kind = "U"

\* the position check left out
TrackLineNoPosition(l, i) ==
  /\ l.kind = "P"
  /\ ~(l.momI >= l.parI)

TrackLineOK(l, i) ==
  /\ l.kind = "P"
  /\ l.parI = i + 1
  /\ ~(l.momI >= l.parI)

\* --------------------------------------------------------------- 4-vectors
Abs(x) == IF x < 0 THEN -x ELSE x

ISqrt(n) == CHOOSE r \in 0..n : r * r <= n /\ (r + 1) * (r + 1) > n

PxPyPzEVector(px, py, pz, e) == [px |-> px, py |-> py, pz |-> pz, e |-> e]

\* A PxPyPzM4D holds px, py, pz and a mass fM that is negative for a
\* spacelike vector; m2 is fM's signed square, which is what M2() returns.
PxPyPzMVector(px, py, pz, m) ==
  [px |-> px, py |-> py, pz |-> pz, m2 |-> IF m >= 0 THEN m * m ELSE -(m * m)]

\* PxPyPzM4D::E(): sqrt of P2() + M2(), floored at 0
EnergyOf(v) ==
  LET e2 == v.px * v.px + v.py * v.py + v.pz * v.pz + v.m2
  IN  ISqrt(IF e2 > 0 THEN e2 ELSE 0)

\* PxPyPzM4D::SetPxPyPzE: keeps px, py, pz and the signed mass of the input
SetPxPyPzE(px, py, pz, e) ==
  [px |-> px, py |-> py, pz |-> pz, m2 |-> e * e - px * px - py * py - pz * pz]

\* p4 += q for p4 a PxPyPzMVector and q a PxPyPzEVector
PlusAssign(p4, q) ==
  SetPxPyPzE(p4.px + q.px, p4.py + q.py, p4.pz + q.pz, EnergyOf(p4) + q.e)

\* conversion of a PxPyPzMVector into the tuple's PxPyPzEVector
ToPxPyPzE(v) == PxPyPzEVector(v.px, v.py, v.pz, EnergyOf(v))

\* PxPyPzE4D::M2()
Mass2(p) == p.e * p.e - p.px * p.px - p.py * p.py - p.pz * p.pz

Half(x) == x \div 2

\* --------------------------------------------------------- particle tuples
Tuple(pdgId, status, momI, p) ==
  [pdgId |-> pdgId, status |-> status, momI |-> momI, p |-> p]

\* value-initialized element of parV(nPar)
DefaultTuple == Tuple(0, 0, 0, PxPyPzEVector(0, 0, 0, 0))

\* the momentum kept as px, py, pz and mass, as the photons' is
StoreParticleByMass(pv, i, l) ==
  [pv EXCEPT ![i + 1] = Tuple(l.pdgId, FINAL, l.momI,
                              ToPxPyPzE(SetPxPyPzE(l.px, l.py, l.pz, l.en)))]

\* the status field of the line taken as the working status
StoreParticleStatusField(pv, i, l) ==
  [pv EXCEPT ![i + 1] = Tuple(l.pdgId, l.status, l.momI, PxPyPzEVector(l.px, l.py, l.pz, l.en))]

\* line 72: parV[iPar] = {pdgId, 1, momI, p}
StoreParticle(pv, i, l) ==
  [pv EXCEPT ![i + 1] = Tuple(l.pdgId, FINAL, l.momI, PxPyPzEVector(l.px, l.py, l.pz, l.en))]

\* the promotion applied one element too far
PromoteNext(pv, momI) ==
  IF momI > 0 THEN [pv EXCEPT ![momI + 1].status = HAS_DAUGHTER] ELSE pv

\* lines 73-74: if (momI > 0) get<1>(parV[momI-1]) = 2
Promote(pv, momI) ==
  IF momI > 0 THEN [pv EXCEPT ![momI].status = HAS_DAUGHTER] ELSE pv

RECURSIVE SumUpTo(_, _)
SumUpTo(pv, n) ==
  IF n = 0 THEN PxPyPzMVector(0, 0, 0, 0)
  ELSE LET s == SumUpTo(pv, n - 1)
       IN  IF pv[n].status = FINAL THEN PlusAssign(s, pv[n].p) ELSE s

\* the sum taken over every tuple, promoted ones included
SumAll(pv) ==
  LET all == [i \in DOMAIN pv |-> [pv[i] EXCEPT !.status = FINAL]]
  IN  SumUpTo(all, Len(all))

\* lines 78-81: p4 summed over the tuples of status 1
SumFinal(pv) == SumUpTo(pv, Len(pv))

\* parV.emplace(parV.begin(), ...)
EmplaceFront(pv, t) == <<t>> \o pv

\* the photon's energy set to its pz
FakePhotonSignedE(pz) == Tuple(PhotonPdg, INCOMING, 0, PxPyPzEVector(0, 0, pz, pz))

FakePhoton(pz) == Tuple(PhotonPdg, INCOMING, 0, ToPxPyPzE(PxPyPzMVector(0, 0, pz, 0)))

\* the second photon put in front first
AddFakePhotonsAFirst(pv) ==
  LET p4 == SumFinal(pv)
      first == EmplaceFront(pv, FakePhoton(Half(p4.pz - EnergyOf(p4))))
  IN  EmplaceFront(first, FakePhoton(Half(p4.pz + EnergyOf(p4))))

\* only one photon put in front
AddOnePhoton(pv) ==
  LET p4 == SumFinal(pv)
  IN  EmplaceFront(pv, FakePhoton(Half(p4.pz + EnergyOf(p4))))

\* lines 82-83
AddFakePhotons(pv) ==
  LET p4 == SumFinal(pv)
      first == EmplaceFront(pv, FakePhoton(Half(p4.pz + EnergyOf(p4))))
  IN  EmplaceFront(first, FakePhoton(Half(p4.pz - EnergyOf(p4))))

\* ------------------------------------------------------------------ output
Tag(s) == [t |-> "tag", text |-> s]

\* the parent shifted by one instead of two
momSShiftOne(status, momI) ==
  IF status > 0
    THEN (IF momI = 0 THEN <<1, 2>> ELSE <<momI + 1, 0>>)
    ELSE <<0, 0>>

\* line 93
momS(status, momI) ==
  IF status > 0
    THEN (IF momI = 0 THEN <<1, 2>> ELSE <<momI + 2, 0>>)
    ELSE <<0, 0>>

\* line 94
ParticleLine(tp) ==
  [t |-> "particle", pdgId |-> tp.pdgId, status |-> tp.status,
   mom |-> momS(tp.status, tp.momI),
   px |-> tp.p.px, py |-> tp.p.py, pz |-> tp.p.pz, e |-> tp.p.e, m2 |-> Mass2(tp.p)]

\* the declared count written instead of parV.size()
CountLineDeclared(pv) == [t |-> "count", n |-> Len(pv) - 2, id |-> SubprocessId]

\* line 88
CountLine(pv) == [t |-> "count", n |-> Len(pv), id |-> SubprocessId]

\* lines 86-96
EventBlock(pv) ==
  <<Tag("<event>"), CountLine(pv)>> \o
  [i \in 1..Len(pv) |-> ParticleLine(pv[i])] \o
  <<Tag("</event>")>>

\* the two cross sections written in each other's place
EnvelopeSwapped(xs) ==
  << Tag("<LesHouchesEvents version=\"3.0\">"), Tag("<!-- "),
     Tag(" #Converted from UPCGEN generator HEPMC output "), Tag("-->"),
     Tag("<header>"), Tag("</header>"), Tag("<init>"),
     [t |-> "beams", pdg1 |-> 2212, pdg2 |-> 2212,
      e1 |-> BeamEnergies[1], e2 |-> BeamEnergies[2]],
     [t |-> "xsec", fid |-> xs[2], unc |-> 0, tot |-> xs[1], id |-> SubprocessId],
     Tag("</init>") >>

\* lines 29-41
Envelope(xs) ==
  << Tag("<LesHouchesEvents version=\"3.0\">"), Tag("<!-- "),
     Tag(" #Converted from UPCGEN generator HEPMC output "), Tag("-->"),
     Tag("<header>"), Tag("</header>"), Tag("<init>"),
     [t |-> "beams", pdg1 |-> 2212, pdg2 |-> 2212,
      e1 |-> BeamEnergies[1], e2 |-> BeamEnergies[2]],
     [t |-> "xsec", fid |-> xs[1], unc |-> 0, tot |-> xs[2], id |-> SubprocessId],
     Tag("</init>") >>

Closing == Tag("</LesHouchesEvents>")

\* -------------------------------------------------------------------- Init
Init ==
  /\ pc = "main"
  /\ argc \in {UsageArgc - 1, UsageArgc, UsageArgc + 1}
  /\ line = EmptyLine
  /\ nRead = 0
  /\ inEvents = <<>>
  /\ nPar = 0
  /\ iPar = 0
  /\ parV = <<>>
  /\ xsecFile \in XsecFiles
  /\ xsec = <<DefaultFidXsec, DefaultTotXsec>>
  /\ outFile = <<>>
  /\ outOpen = FALSE
  /\ nEvt = 0
  /\ err = "none"

\* ----------------------------------------------------------------- actions
\* only too few arguments refused
MainTooFew ==
  /\ pc = "main"
  /\ pc' = IF argc < UsageArgc THEN "Usage" ELSE "OpenInput"
  /\ UNCHANGED <<argc, xsecFile, line, nRead, inEvents, nPar, iPar, parV, xsec, outFile,
                 outOpen, nEvt, err>>

\* main, lines 109-114
Main ==
  /\ pc = "main"
  /\ pc' = IF argc # UsageArgc THEN "Usage" ELSE "OpenInput"
  /\ UNCHANGED <<argc, xsecFile, line, nRead, inEvents, nPar, iPar, parV, xsec, outFile,
                 outOpen, nEvt, err>>

\* the side file read before the input is tested
OpenInputAfterXsec ==
  /\ pc = "OpenInput"
  /\ xsec' = IF xsecFile # <<>> THEN xsecFile ELSE xsec
  /\ \E ok \in BOOLEAN :
       IF ok THEN pc' = "ReadXsec" /\ err' = err
             ELSE pc' = "Failed" /\ err' = "open input"
  /\ UNCHANGED <<argc, xsecFile, line, nRead, inEvents, nPar, iPar, parV,
                 outFile, outOpen, nEvt>>

\* lines 10-12
OpenInput ==
  /\ pc = "OpenInput"
  /\ \E ok \in BOOLEAN :
       IF ok THEN pc' = "ReadXsec" /\ err' = err
             ELSE pc' = "Failed" /\ err' = "open input"
  /\ UNCHANGED <<argc, xsecFile, line, nRead, inEvents, nPar, iPar, parV, xsec, outFile,
                 outOpen, nEvt>>

\* lines 15-18
ReadXsec ==
  /\ pc = "ReadXsec"
  /\ xsec' = IF xsecFile # <<>> THEN xsecFile ELSE xsec
  /\ pc' = "OpenOutput"
  /\ UNCHANGED <<argc, xsecFile, line, nRead, inEvents, nPar, iPar, parV, outFile,
                 outOpen, nEvt, err>>

\* lines 21-24
OpenOutput ==
  /\ pc = "OpenOutput"
  /\ \E ok \in BOOLEAN :
       IF ok THEN pc' = "WriteHeader" /\ err' = err /\ outOpen' = TRUE
             ELSE pc' = "Failed" /\ err' = "open output" /\ outOpen' = FALSE
  /\ UNCHANGED <<argc, xsecFile, line, nRead, inEvents, nPar, iPar, parV, xsec, outFile,
                 nEvt>>

\* lines 29-43
WriteHeader ==
  /\ pc = "WriteHeader"
  /\ outFile' = outFile \o Envelope(xsec)
  /\ nEvt' = 0
  /\ pc' = "ExpectEventOrEnd"
  /\ UNCHANGED <<argc, xsecFile, line, nRead, inEvents, nPar, iPar, parV, xsec, outOpen,
                 err>>

\* lines 47-55 for a line the stream delivers; lines 100-103 when it holds
\* the end marker
ReadEventLine ==
  /\ pc = "ExpectEventOrEnd"
  /\ nRead < MaxLines
  /\ \E l \in Lines :
       /\ line' = l
       /\ nRead' = nRead + 1
       /\ IF HasEndMarker(l)
            THEN /\ outFile' = Append(outFile, Closing)
                 /\ pc' = "End"
                 /\ UNCHANGED <<inEvents, nPar, err>>
          ELSE IF ~StartsWithE(l)
            THEN UNCHANGED <<pc, outFile, inEvents, nPar, err>>
          ELSE IF ~ParsesAsEvent(l)
            THEN /\ pc' = "Failed"
                 /\ err' = "event line"
                 /\ UNCHANGED <<outFile, inEvents, nPar>>
          ELSE /\ nPar' = l.nPar
               /\ inEvents' = Append(inEvents, [nPar |-> l.nPar, P |-> <<>>])
               /\ pc' = "ExpectUnits"
               /\ UNCHANGED <<outFile, err>>
  /\ UNCHANGED <<argc, xsecFile, iPar, parV, xsec, outOpen, nEvt>>

\* line 47 when getline meets the end of the stream; lines 100-103
EndOfStream ==
  /\ pc = "ExpectEventOrEnd"
  /\ line' = EmptyLine
  /\ outFile' = Append(outFile, Closing)
  /\ pc' = "End"
  /\ UNCHANGED <<argc, xsecFile, nRead, inEvents, nPar, iPar, parV, xsec, outOpen, nEvt,
                 err>>

\* lines 58-62; parV(nPar) with a negative nPar asks for more elements than
\* a vector can hold and throws
ReadUnits ==
  /\ pc = "ExpectUnits"
  /\ \/ \E l \in Lines :
          /\ nRead < MaxLines
          /\ line' = l
          /\ nRead' = nRead + 1
          /\ IF ParsesAsUnits(l) /\ nPar >= 0
               THEN /\ parV' = [i \in 1..nPar |-> DefaultTuple]
                    /\ iPar' = 0
                    /\ pc' = "ExpectParticle"
                    /\ err' = err
             ELSE IF ParsesAsUnits(l)
               THEN /\ pc' = "Failed"
                    /\ err' = "vector length"
                    /\ UNCHANGED <<parV, iPar>>
               ELSE /\ pc' = "Failed"
                    /\ err' = "event line"
                    /\ UNCHANGED <<parV, iPar>>
     \/ /\ line' = EmptyLine
        /\ pc' = "Failed"
        /\ err' = "event line"
        /\ UNCHANGED <<nRead, parV, iPar>>
  /\ UNCHANGED <<argc, xsecFile, inEvents, nPar, xsec, outFile, outOpen, nEvt>>

\* lines 65-75, one turn of the particle loop
ReadParticle ==
  /\ pc = "ExpectParticle"
  /\ iPar < nPar
  /\ \/ \E l \in Lines :
          /\ nRead < MaxLines
          /\ line' = l
          /\ nRead' = nRead + 1
          /\ IF TrackLineOK(l, iPar)
               THEN /\ parV' = Promote(StoreParticle(parV, iPar, l), l.momI)
                    /\ iPar' = iPar + 1
                    /\ inEvents' = [inEvents EXCEPT ![Len(inEvents)].P = Append(@, l)]
                    /\ UNCHANGED <<pc, err>>
               ELSE /\ pc' = "Failed"
                    /\ err' = "track line"
                    /\ UNCHANGED <<parV, iPar, inEvents>>
     \/ /\ line' = EmptyLine
        /\ pc' = "Failed"
        /\ err' = "track line"
        /\ UNCHANGED <<nRead, parV, iPar, inEvents>>
  /\ UNCHANGED <<argc, xsecFile, nPar, xsec, outFile, outOpen, nEvt>>

\* the particle loop left one turn early
WriteEventEarly ==
  /\ pc = "ExpectParticle"
  /\ ~(iPar + 1 < nPar)
  /\ outFile' = outFile \o EventBlock(AddFakePhotons(parV))
  /\ nEvt' = nEvt + 1
  /\ parV' = <<>>
  /\ pc' = "ExpectEventOrEnd"
  /\ UNCHANGED <<argc, xsecFile, line, nRead, inEvents, nPar, iPar, xsec, outOpen, err>>

\* the list kept, photons included, after its event is written
WriteEventKeepsList ==
  /\ pc = "ExpectParticle"
  /\ ~(iPar < nPar)
  /\ outFile' = outFile \o EventBlock(AddFakePhotons(parV))
  /\ nEvt' = nEvt + 1
  /\ parV' = AddFakePhotons(parV)
  /\ pc' = "ExpectEventOrEnd"
  /\ UNCHANGED <<argc, xsecFile, line, nRead, inEvents, nPar, iPar, xsec, outOpen, err>>

\* lines 77-97, after the particle loop
WriteEvent ==
  /\ pc = "ExpectParticle"
  /\ ~(iPar < nPar)
  /\ outFile' = outFile \o EventBlock(AddFakePhotons(parV))
  /\ nEvt' = nEvt + 1
  /\ parV' = <<>>
  /\ pc' = "ExpectEventOrEnd"
  /\ UNCHANGED <<argc, xsecFile, line, nRead, inEvents, nPar, iPar, xsec, outOpen, err>>

\* the value main returns: 1 after the usage text, 0 after the conversion
\* (lines 112 and 115); -1 stands for no return, the run going on or ended by
\* an exception
ExitStatus ==
  IF pc = "Usage" THEN 1 ELSE IF pc = "End" THEN 0 ELSE -1

Next ==
  \/ Main
  \/ OpenInput
  \/ ReadXsec
  \/ OpenOutput
  \/ WriteHeader
  \/ ReadEventLine
  \/ EndOfStream
  \/ ReadUnits
  \/ ReadParticle
  \/ WriteEvent

Spec == Init /\ [][Next]_vars

\* ------------------------------------------------- reading the output back
RECURSIVE NextClose(_, _)
NextClose(out, i) ==
  IF out[i] = Tag("</event>") THEN i ELSE NextClose(out, i + 1)

\* the event blocks of an output, in order: header line and particle lines
RECURSIVE BlocksFrom(_, _)
BlocksFrom(out, i) ==
  IF i > Len(out) THEN <<>>
  ELSE IF out[i] = Tag("<event>")
    THEN LET e == NextClose(out, i + 1)
         IN  <<[count |-> out[i + 1], lines |-> SubSeq(out, i + 2, e - 1),
                first |-> i, last |-> e]>> \o BlocksFrom(out, e + 1)
  ELSE BlocksFrom(out, i + 1)

Blocks == BlocksFrom(outFile, 1)

\* T: the component sums of the input momenta P[j] of the original particles
\* that the block's lines L show with status 1, over the first n positions
RECURSIVE TotalUpTo(_, _, _)
TotalUpTo(L, P, n) ==
  IF n = 0 THEN [px |-> 0, py |-> 0, pz |-> 0, e |-> 0]
  ELSE LET T == TotalUpTo(L, P, n - 1)
       IN  IF L[n + 2].status = 1
             THEN [px |-> T.px + P[n].px, py |-> T.py + P[n].py,
                   pz |-> T.pz + P[n].pz, e |-> T.e + P[n].en]
             ELSE T

TotalFinal(L, P) == TotalUpTo(L, P, Len(P))

NoNegativeEnergy(L, P) ==
  \A j \in 1..Len(P) : L[j + 2].status = 1 => P[j].en >= 0

\* every parent index of the event is 0 or the position of an earlier record
ParentsInRange(P) ==
  \A j \in 1..Len(P) : P[j].momI = 0 \/ (1 <= P[j].momI /\ P[j].momI < j)

PhotonSum(L) ==
  [px |-> L[1].px + L[2].px, py |-> L[1].py + L[2].py,
   pz |-> L[1].pz + L[2].pz, e |-> L[1].e + L[2].e]

\* ------------------------------------------------------------------ claims

\* C1: when a run completes on an input of N accepted events with declared
\* counts k_1..k_N, the output holds exactly N event blocks, and block i has
\* k_i + 2 particle lines and a header line whose count is k_i + 2.
C1_BlockCounts ==
  pc = "End" =>
    LET B == Blocks
    IN  /\ Len(B) = Len(inEvents)
        /\ Cardinality({ i \in DOMAIN outFile : outFile[i] = Tag("<event>") })
             = Len(inEvents)
        /\ \A b \in DOMAIN B :
             /\ Len(B[b].lines) = inEvents[b].nPar + 2
             /\ \A j \in DOMAIN B[b].lines : B[b].lines[j].t = "particle"
             /\ B[b].count.t = "count"
             /\ B[b].count.n = inEvents[b].nPar + 2

C1_Witness ==
  /\ pc = "End"
  /\ Len(inEvents) = 2
  /\ inEvents[1].nPar = 2
  /\ inEvents[2].nPar = 0
  /\ Len(Blocks) = 2

\* C2 as claimed: in every written block the two photons sum to T in each of
\* px, py, pz and energy. It is stated here for the events whose parent
\* indices are all in range, so that no out-of-range parent (C9) is involved.
C2_Original ==
  LET B == Blocks
  IN  \A b \in DOMAIN B :
        ParentsInRange(inEvents[b].P) =>
          PhotonSum(B[b].lines) = TotalFinal(B[b].lines, inEvents[b].P)

\* C2 amended: in every written block the photons' px and py sum to 0 and
\* their pz sums to T.pz; their energies sum to T.energy when T.energy >=
\* |T.pz| and no FINAL particle has a negative energy.
C2_Conservation ==
  LET B == Blocks
  IN  \A b \in DOMAIN B :
        LET L == B[b].lines
            P == inEvents[b].P
            T == TotalFinal(L, P)
            S == PhotonSum(L)
        IN  /\ S.px = 0
            /\ S.py = 0
            /\ S.pz = T.pz
            /\ (T.e >= Abs(T.pz) /\ NoNegativeEnergy(L, P)) => S.e = T.e

C2_Witness ==
  LET B == Blocks
  IN  \E b \in DOMAIN B :
        LET L == B[b].lines
            P == inEvents[b].P
            T == TotalFinal(L, P)
        IN  /\ Len(P) = 2
            /\ T.px # 0
            /\ T.e >= Abs(T.pz)
            /\ NoNegativeEnergy(L, P)
            /\ PhotonSum(L).e = T.e
            /\ PhotonSum(L).pz = T.pz

\* some later P line of the event names position j as parent
HasLaterChild(P, j) == \E i \in (j + 1)..Len(P) : P[i].momI = j

C4_ParentPairs ==
  LET B == Blocks
  IN  \A b \in DOMAIN B :
        LET L == B[b].lines
            P == inEvents[b].P
        IN  /\ L[1].mom = <<0, 0>>
            /\ L[2].mom = <<0, 0>>
            /\ \A j \in 1..Len(P) :
                 /\ P[j].momI = 0 => L[j + 2].mom = <<1, 2>>
                 /\ P[j].momI > 0 => L[j + 2].mom = <<P[j].momI + 2, 0>>

C4_Witness ==
  LET B == Blocks
  IN  \E b \in DOMAIN B :
        LET L == B[b].lines
            P == inEvents[b].P
        IN  /\ Len(P) = 2
            /\ P[1].momI = 0
            /\ P[2].momI = 1
            /\ L[3].mom = <<1, 2>>
            /\ L[4].mom = <<3, 0>>

\* C5: a P line whose declared position differs from its 1-based sequence
\* position, or whose parent index is >= its own position, aborts the run with
\* the track-line error; the output is left as it was, holds only the blocks
\* of the preceding events, and the run takes no further step.
C5_TrackAbortState ==
  (pc = "Failed" /\ err = "track line") =>
    /\ Len(Blocks) = Len(inEvents) - 1
    /\ outFile[Len(outFile)] \in {Tag("</init>"), Tag("</event>")}
    /\ ~ENABLED Next

C5_BadTrackLineAborts ==
  /\ []C5_TrackAbortState
  /\ [][ ( /\ pc = "ExpectParticle"
           /\ nRead' = nRead + 1
           /\ line'.kind = "P"
           /\ (line'.parI # iPar + 1 \/ line'.momI >= line'.parI) )
         => (pc' = "Failed" /\ err' = "track line" /\ outFile' = outFile) ]_vars

C5_Witness ==
  /\ pc = "Failed"
  /\ err = "track line"
  /\ nEvt = 1
  /\ iPar = 1
  /\ line.kind = "P"
  /\ (line.parI # iPar + 1 \/ line.momI >= line.parI)
  /\ Len(Blocks) = 1

\* the record of a synthesized photon, and a written line reduced to it
PhotonRec(pz, e) ==
  [pdgId |-> 22, status |-> -1, px |-> 0, py |-> 0, pz |-> pz, e |-> e]

Written(l) ==
  [pdgId |-> l.pdgId, status |-> l.status, px |-> l.px, py |-> l.py,
   pz |-> l.pz, e |-> l.e]

ClaimedA(T) == PhotonRec((T.pz + T.e) \div 2, (T.pz + T.e) \div 2)

ClaimedB(T) == PhotonRec((T.pz - T.e) \div 2, -((T.pz - T.e) \div 2))

MatchesClaimed(L, T) ==
  { Written(L[1]), Written(L[2]) } = { ClaimedA(T), ClaimedB(T) }

\* C6 as claimed: for every written event the two synthesized records are
\* photon A (pz = energy = (T.pz + T.energy)/2) and photon B
\* (pz = (T.pz - T.energy)/2, energy = -pz), whatever T is. It is stated
\* here for the events whose parent indices are all in range and whose FINAL
\* particles have no negative energy.
C6_Original ==
  LET B == Blocks
  IN  \A b \in DOMAIN B :
        (ParentsInRange(inEvents[b].P) /\ NoNegativeEnergy(B[b].lines, inEvents[b].P))
          => MatchesClaimed(B[b].lines, TotalFinal(B[b].lines, inEvents[b].P))

\* C6 amended: both synthesized records have pdgId 22, status -1, px = py = 0
\* and energy |pz|; they are the claimed photons A and B for every event with
\* T.energy >= |T.pz| and no FINAL particle of negative energy.
C6_PhotonRecords ==
  LET B == Blocks
  IN  \A b \in DOMAIN B :
        LET L == B[b].lines
            P == inEvents[b].P
            T == TotalFinal(L, P)
        IN  /\ \A i \in 1..2 : Written(L[i]) = PhotonRec(L[i].pz, Abs(L[i].pz))
            /\ (T.e >= Abs(T.pz) /\ NoNegativeEnergy(L, P)) => MatchesClaimed(L, T)

C6_Witness ==
  LET B == Blocks
  IN  /\ \E b \in DOMAIN B :
           LET L == B[b].lines
               P == inEvents[b].P
               T == TotalFinal(L, P)
           IN  T.e > Abs(T.pz) /\ NoNegativeEnergy(L, P) /\ MatchesClaimed(L, T)
      /\ \E b \in DOMAIN B :
           LET L == B[b].lines
               P == inEvents[b].P
               T == TotalFinal(L, P)
           IN  T.e < Abs(T.pz) /\ NoNegativeEnergy(L, P) /\ ~MatchesClaimed(L, T)

OriginalsFromLineThree(L, P) ==
  /\ Len(L) = Len(P) + 2
  /\ \A j \in 1..Len(P) : L[j + 2].pdgId = P[j].pdgId /\ L[j + 2].status > 0

\* C7 as claimed: the first particle line is photon A, of pz (T.pz +
\* T.energy)/2, the second is photon B, of pz (T.pz - T.energy)/2, and the
\* original particles start at line 3. It is stated here for the events
\* whose parent indices are all in range and whose FINAL particles have no
\* negative energy.
C7_Original ==
  LET B == Blocks
  IN  \A b \in DOMAIN B :
        LET L == B[b].lines
            P == inEvents[b].P
            T == TotalFinal(L, P)
        IN  (ParentsInRange(P) /\ NoNegativeEnergy(L, P)) =>
              /\ L[1].pz = (T.pz + T.e) \div 2
              /\ L[2].pz = (T.pz - T.e) \div 2
              /\ OriginalsFromLineThree(L, P)

\* C7 amended: the first particle line is photon B and the second is photon A:
\* both are status -1 photons, the first has the smaller pz, and when no FINAL
\* particle has a negative energy the first has pz (T.pz - T.energy)/2 and the
\* second (T.pz + T.energy)/2; the original particles start at line 3.
C7_PhotonOrder ==
  LET B == Blocks
  IN  \A b \in DOMAIN B :
        LET L == B[b].lines
            P == inEvents[b].P
            T == TotalFinal(L, P)
        IN  /\ \A i \in 1..2 : L[i].pdgId = 22 /\ L[i].status = -1
            /\ L[1].pz <= L[2].pz
            /\ NoNegativeEnergy(L, P) =>
                 /\ L[1].pz = (T.pz - T.e) \div 2
                 /\ L[2].pz = (T.pz + T.e) \div 2
            /\ OriginalsFromLineThree(L, P)

C7_Witness ==
  LET B == Blocks
  IN  \E b \in DOMAIN B :
        LET L == B[b].lines
            P == inEvents[b].P
            T == TotalFinal(L, P)
        IN  /\ Len(P) = 2
            /\ NoNegativeEnergy(L, P)
            /\ T.e > 0
            /\ L[1].pz < L[2].pz
            /\ L[3].pdgId = P[1].pdgId

\* the checks the parser makes on a line in each state
ValidFor(state, l, i) ==
  CASE state = "ExpectEventOrEnd" -> l.kind = "E"
    [] state = "ExpectUnits" -> l.kind = "U"
    [] state = "ExpectParticle" -> l.kind = "P" /\ l.parI = i + 1 /\ l.momI < l.parI
    [] OTHER -> FALSE

ReadsLine ==
  /\ pc \in {"ExpectEventOrEnd", "ExpectUnits", "ExpectParticle"}
  /\ nRead' = nRead + 1

\* C8 as claimed: in every parser state, reading a line that is neither valid
\* for the state nor, in ExpectEventOrEnd, the end marker, moves the parser
\* to Failed.
C8_Original ==
  [][ ( /\ ReadsLine
        /\ ~ValidFor(pc, line', iPar)
        /\ ~(pc = "ExpectEventOrEnd" /\ line'.kind = "END") )
      => pc' = "Failed" ]_vars

\* C8 amended: in ExpectUnits and ExpectParticle reading a line that is not
\* valid for the state moves the parser to Failed; in ExpectEventOrEnd a line
\* without the end marker that begins with "E " but does not tokenize moves it
\* to Failed, and a line without the end marker that does not begin with "E "
\* is skipped: the parser stays in ExpectEventOrEnd and writes nothing.
C8_FailOrSkip ==
  [][ ReadsLine =>
        /\ (pc \in {"ExpectUnits", "ExpectParticle"} /\ ~ValidFor(pc, line', iPar))
             => (pc' = "Failed" /\ outFile' = outFile)
        /\ (pc = "ExpectEventOrEnd" /\ line'.kind = "Ebad")
             => (pc' = "Failed" /\ err' = "event line" /\ outFile' = outFile)
        /\ (pc = "ExpectEventOrEnd" /\ line'.kind \notin {"E", "Ebad", "END"})
             => /\ pc' = "ExpectEventOrEnd"
                /\ outFile' = outFile
                /\ inEvents' = inEvents
                /\ nEvt' = nEvt ]_vars

C8_Witness ==
  /\ pc = "ExpectUnits"
  /\ nRead = 3
  /\ nEvt = 0
  /\ Len(inEvents) = 1
  /\ line.kind = "E"

\* C9 as claimed: every accepted particle record has a parent index that is 0
\* or the position of an earlier record of its event.
C9_ParentInRange ==
  \A b \in 1..Len(inEvents) : ParentsInRange(inEvents[b].P)

RECURSIVE SumNPar(_)
SumNPar(n) == IF n = 0 THEN 0 ELSE inEvents[n].nPar + SumNPar(n - 1)

\* C10: when the run has aborted on a format error, the output is the envelope
\* and init block followed by exactly the complete blocks of the nEvt events
\* that precede the failing one, in input order; it holds no closing tag and
\* the run takes no further step.
C10_AbortKeepsCompleteBlocks ==
  (pc = "Failed" /\ err \in {"event line", "track line", "vector length"}) =>
    LET B == Blocks
    IN  /\ nEvt \in {Len(inEvents) - 1, Len(inEvents)}
        /\ Len(B) = nEvt
        /\ SubSeq(outFile, 1, 10) = Envelope(xsec)
        /\ Len(outFile) = 10 + SumNPar(nEvt) + 5 * nEvt
        /\ \A b \in DOMAIN B :
             /\ B[b].last = B[b].first + inEvents[b].nPar + 4
             /\ B[b].count.n = Len(B[b].lines)
             /\ OriginalsFromLineThree(B[b].lines, inEvents[b].P)
        /\ \A i \in DOMAIN outFile : outFile[i] # Tag("</LesHouchesEvents>")
        /\ ~ENABLED Next

C10_Witness ==
  /\ pc = "Failed"
  /\ err = "event line"
  /\ nEvt = 2
  /\ Len(Blocks) = 2
  /\ inEvents[1].nPar = 1
  /\ Len(outFile) = 10 + 6 + 5

\* a line is taken from the stream and is a P line
ReadsPLine == nRead' = nRead + 1 /\ line'.kind = "P"

\* C11 as claimed: an event with more P lines than its E line declares makes
\* the run fail: a P line met after the declared ones, before the next E
\* line, moves the parser to Failed.
C11_Original ==
  [][ (pc = "ExpectEventOrEnd" /\ nEvt >= 1 /\ ReadsPLine) => pc' = "Failed" ]_vars

\* C11 amended: every written event has as many accepted P lines, read right
\* after its U line, as its E line declares; when a line that is no P line, or
\* the end of the stream, is met before the declared count is reached, the run
\* fails with the track-line error and the event is not written; a P line met
\* after the declared ones is skipped: the event stays written, the parser
\* stays in ExpectEventOrEnd and the output is unchanged.
C11_WrittenIffDeclaredRead ==
  LET B == Blocks
  IN  /\ Len(B) = nEvt
      /\ Len(B) <= Len(inEvents)
      /\ \A b \in DOMAIN B :
           /\ Len(inEvents[b].P) = inEvents[b].nPar
           /\ Len(B[b].lines) = Len(inEvents[b].P) + 2
      /\ \A b \in DOMAIN inEvents :
           Len(inEvents[b].P) < inEvents[b].nPar => b \notin DOMAIN B

C11_DeclaredCountRead ==
  /\ []C11_WrittenIffDeclaredRead
  /\ [][ ( /\ pc = "ExpectParticle"
           /\ iPar < nPar
           /\ \/ (nRead' = nRead + 1 /\ line'.kind # "P")
              \/ (nRead' = nRead /\ pc' # pc) )
         => (pc' = "Failed" /\ err' = "track line" /\ outFile' = outFile /\ nEvt' = nEvt) ]_vars
  /\ [][ (pc = "ExpectEventOrEnd" /\ ReadsPLine)
         => (pc' = "ExpectEventOrEnd" /\ outFile' = outFile
             /\ inEvents' = inEvents /\ nEvt' = nEvt) ]_vars

\* a P line of position 2 skipped after a written event that declared one
C11_Witness ==
  /\ pc = "ExpectEventOrEnd"
  /\ nEvt = 1
  /\ inEvents[1].nPar = 1
  /\ Len(inEvents[1].P) = 1
  /\ line.kind = "P"
  /\ line.parI = 2
  /\ Len(Blocks) = 1

\* the stream is at its end, or the line read holds the end marker
MeetsEnd ==
  \/ nRead' = nRead /\ pc' # pc
  \/ nRead' = nRead + 1 /\ line'.kind = "END"

\* a measure of the work left: the lines of the stream not yet read, then the
\* position of the run
PcRank ==
  CASE pc = "main" -> 9
    [] pc = "OpenInput" -> 8
    [] pc = "ReadXsec" -> 7
    [] pc = "OpenOutput" -> 6
    [] pc = "WriteHeader" -> 5
    [] pc \in {"ExpectUnits", "ExpectParticle"} -> 3
    [] pc = "ExpectEventOrEnd" -> 2
    [] OTHER -> 0

StepsLeft == 4 * (MaxLines - nRead) + PcRank

C12_EndState ==
  /\ StepsLeft >= 0
  /\ pc \in {"End", "Failed", "Usage"} => ~ENABLED Next
  /\ pc \notin {"End", "Failed", "Usage"} =>
       \/ ENABLED (Main \/ OpenInput \/ ReadXsec \/ OpenOutput \/ WriteHeader
                     \/ EndOfStream \/ ReadUnits \/ ReadParticle)
       \/ pc = "ExpectParticle" /\ ~(iPar < nPar)
  /\ pc = "Usage" <=> (argc # UsageArgc /\ pc # "main")
  /\ Cardinality({ i \in DOMAIN outFile : outFile[i] = Closing })
       = IF pc = "End" THEN 1 ELSE 0
  /\ pc = "End" =>
       /\ outFile[Len(outFile)] = Closing
       /\ Len(Blocks) = Len(inEvents)
       /\ nEvt = Len(inEvents)
       /\ ~ENABLED Next

\* C12: on every finite input a started conversion terminates in End or
\* Failed: every step lowers a measure that is never negative, and the only
\* states without a next step are End, Failed and, for a wrong argument
\* count, Usage. End is reached exactly when the end marker or the end of the
\* stream is met while an event header is expected; the closing tag is then
\* written once, as the last output line, and the run takes no further step,
\* so no line after the end marker is read or written as a block. An end
\* marker or end of stream met while a U or P line is expected leads to
\* Failed with the output unchanged.
C12_EndOrFailed ==
  /\ []C12_EndState
  /\ [][ StepsLeft' < StepsLeft ]_vars
  /\ [][ (pc # "End" /\ pc' = "End")
         => (pc = "ExpectEventOrEnd" /\ MeetsEnd
             /\ outFile' = Append(outFile, Closing)) ]_vars
  /\ [][ (pc = "ExpectEventOrEnd" /\ MeetsEnd) => pc' = "End" ]_vars
  /\ [][ ( /\ \/ pc = "ExpectUnits"
              \/ pc = "ExpectParticle" /\ iPar < nPar
           /\ MeetsEnd )
         => (pc' = "Failed" /\ outFile' = outFile) ]_vars

\* the end marker met after one event, with lines left in the stream
C12_Witness ==
  /\ pc = "End"
  /\ line.kind = "END"
  /\ nRead < MaxLines
  /\ nEvt = 1
  /\ outFile[Len(outFile)] = Closing

\* the list that the first n of the P lines P build in a fresh list of the
\* given size
RECURSIVE ListOf(_, _, _)
ListOf(P, n, size) ==
  IF n = 0 THEN [i \in 1..size |-> DefaultTuple]
  ELSE Promote(StoreParticle(ListOf(P, n - 1, size), n - 1, P[n]), P[n].momI)

\* the particle lines written for an event that has the P lines P and no
\* other
LinesOf(P) ==
  LET pv == AddFakePhotons(ListOf(P, Len(P), Len(P)))
  IN  [i \in 1..Len(pv) |-> ParticleLine(pv[i])]

\* C13: processing is event by event. While the lines of an event are read,
\* the blocks of all earlier events are complete in the output; the particle
\* list holds records of the event being read only (its declared count, built
\* from its own P lines in a fresh list) and is empty between events; and
\* every written block is the one its own P lines give alone, so that no
\* record of an earlier event bears on its statuses, photons or parent pairs.
C13_EventByEvent ==
  LET B == Blocks
      k == Len(inEvents)
  IN  /\ pc \in {"ExpectUnits", "ExpectParticle"} => Len(B) = k - 1
      /\ pc \in {"ExpectEventOrEnd", "End"} => Len(B) = k
      /\ (Len(outFile) > 0 /\ pc # "End") =>
           outFile[Len(outFile)] \in {Tag("</init>"), Tag("</event>")}
      /\ Len(parV) <= nPar + 2
      /\ IF pc = "ExpectParticle"
           THEN parV = ListOf(inEvents[k].P, iPar, nPar) /\ Len(inEvents[k].P) = iPar
           ELSE pc \in {"ExpectEventOrEnd", "End"} => parV = <<>>
      /\ \A b \in DOMAIN B : B[b].lines = LinesOf(inEvents[b].P)

\* two events written, the second after a first of another particle
C13_Witness ==
  LET B == Blocks
  IN  /\ pc = "ExpectEventOrEnd"
      /\ Len(B) = 2
      /\ inEvents[1].nPar = 1
      /\ inEvents[2].nPar = 1
      /\ inEvents[1].P[1].pdgId # inEvents[2].P[1].pdgId
      /\ B[1].lines[3].pdgId = inEvents[1].P[1].pdgId
      /\ B[2].lines[3].pdgId = inEvents[2].P[1].pdgId
      /\ B[1].lines[1].pz # B[2].lines[1].pz
      /\ parV = <<>>

\* P lines with the mass field and the status field blanked
Erase(P) == [j \in DOMAIN P |-> [P[j] EXCEPT !.mass = 0, !.status = 0]]

\* the event blocks of the first n events, computed from their P lines with
\* mass and status fields blanked
RECURSIVE BlocksOfErased(_)
BlocksOfErased(n) ==
  IF n = 0 THEN <<>>
  ELSE BlocksOfErased(n - 1) \o
       EventBlock(AddFakePhotons(ListOf(Erase(inEvents[n].P),
                                        Len(inEvents[n].P), Len(inEvents[n].P))))

\* C14: the output is a function of the cross sections, of the accepted P
\* lines without their mass and status fields, and of whether the run has
\* ended: the event index and vertex count of E lines, the unit labels of U
\* lines and the mass and status fields of P lines do not enter it, so two
\* inputs that differ only in them give the same document.
C14_IgnoredFields ==
  Len(outFile) > 0 =>
    outFile = Envelope(xsec) \o BlocksOfErased(nEvt) \o
              (IF pc = "End" THEN <<Closing>> ELSE <<>>)

\* a completed run of two events whose P lines differ in the mass and status
\* fields only, with the same block written for both
C14_Witness ==
  LET B == Blocks
  IN  /\ pc = "End"
      /\ Len(B) = 2
      /\ Len(inEvents[1].P) = 1
      /\ Len(inEvents[2].P) = 1
      /\ inEvents[1].P[1].mass # inEvents[2].P[1].mass
      /\ inEvents[1].P[1].status # inEvents[2].P[1].status
      /\ Erase(inEvents[1].P) = Erase(inEvents[2].P)
      /\ B[1].lines = B[2].lines

\* C15: started with an argument count other than three, the program ends in
\* Usage with exit status 1 and takes no further step: the input is not
\* opened and no line is read, the cross sections keep their defaults (the
\* side file is not read) and no output file is created or written.
C15_UsageTouchesNothing ==
  /\ pc = "Usage" => (argc # UsageArgc /\ ExitStatus = 1 /\ ~ENABLED Next)
  /\ argc # UsageArgc =>
       /\ pc \in {"main", "Usage"}
       /\ nRead = 0
       /\ inEvents = <<>>
       /\ xsec = <<DefaultFidXsec, DefaultTotXsec>>
       /\ ~outOpen
       /\ outFile = <<>>
       /\ err = "none"

\* four positional arguments given
C15_Witness ==
  /\ pc = "Usage"
  /\ argc = UsageArgc + 1
  /\ ExitStatus = 1

Count(x) == Cardinality({ i \in DOMAIN outFile : outFile[i] = x })

\* the cross-section line that a side file f, <<>> when absent, calls for
XsecLineFor(f) ==
  [t |-> "xsec", fid |-> IF f = <<>> THEN 1 ELSE f[1], unc |-> 0,
   tot |-> IF f = <<>> THEN 3 ELSE f[2], id |-> 81]

\* C16: once the output is written to, its init block is lines 7 to 10; the
\* cross-section line carries 1 and 3 when there is no side file and the two
\* values of the side file when there is one, with uncertainty 0 and
\* subprocess id 81; the init block occurs once and before every event block.
C16_InitBlock ==
  /\ Len(outFile) > 0 =>
       LET B == Blocks IN
       /\ Len(outFile) >= 10
       /\ outFile[7] = Tag("<init>")
       /\ outFile[8].t = "beams"
       /\ outFile[9] = XsecLineFor(xsecFile)
       /\ outFile[10] = Tag("</init>")
       /\ Count(Tag("<init>")) = 1
       /\ Count(Tag("</init>")) = 1
       /\ Cardinality({ i \in DOMAIN outFile : outFile[i].t \in {"xsec", "beams"} }) = 2
       /\ \A b \in DOMAIN B : B[b].first > 10
  /\ pc \in {"ExpectEventOrEnd", "ExpectUnits", "ExpectParticle", "End"} =>
       Len(outFile) > 0

\* an event block written after the init block of a run without side file
C16_Witness ==
  /\ nEvt = 1
  /\ xsecFile = <<>>
  /\ outFile[9].fid = 1
  /\ outFile[9].tot = 3
  /\ outFile[11] = Tag("<event>")

\* C17: the blocks are written in the order of the accepted E lines, block i
\* for the i-th of them, and in a block the particle line j + 2 carries the
\* pdgId, px, py, pz and energy of the j-th P line of its event unchanged,
\* for j from 1 to the declared count.
C17_OrderAndContent ==
  LET B == Blocks
  IN  /\ Len(B) <= Len(inEvents)
      /\ \A b \in DOMAIN B :
           LET L == B[b].lines
               P == inEvents[b].P
           IN  /\ Len(P) = inEvents[b].nPar
               /\ Len(L) = inEvents[b].nPar + 2
               /\ \A j \in 1..inEvents[b].nPar :
                    /\ L[j + 2].pdgId = P[j].pdgId
                    /\ L[j + 2].px = P[j].px
                    /\ L[j + 2].py = P[j].py
                    /\ L[j + 2].pz = P[j].pz
                    /\ L[j + 2].e = P[j].en

\* two events of different particles, written in their order
C17_Witness ==
  LET B == Blocks
  IN  /\ Len(B) = 2
      /\ inEvents[1].nPar = 1
      /\ inEvents[2].nPar = 1
      /\ inEvents[1].P[1].pdgId = NegativeEnergy.pdgId
      /\ inEvents[2].P[1].pdgId = -11
      /\ B[1].lines[3].e = NegativeEnergy.en
      /\ B[2].lines[3].px = 2

\* the parent slots of the line at position q of the lines L refer to lines
\* of L before q: each is 0 or a position below q, a first slot of 3 or more
\* names a line of status 2, and the slots 1 and 2, which name the two
\* photon lines, only occur as the pair (1, 2)
SlotsRefer(L, q) ==
  LET mom == L[q].mom
  IN  /\ \A s \in 1..2 : mom[s] = 0 \/ (1 <= mom[s] /\ mom[s] < q)
      /\ mom[1] >= 3 => L[mom[1]].status = 2
      /\ (\E s \in 1..2 : mom[s] \in {1, 2}) =>
           /\ mom = <<1, 2>>
           /\ L[1].status = -1
           /\ L[2].status = -1

\* C18 as claimed: in every written event block the parent slots of every
\* particle line refer to earlier lines of the block in this way.
C18_ParentSlotsRefer ==
  LET B == Blocks
  IN  \A b \in DOMAIN B :
        \A q \in DOMAIN B[b].lines : SlotsRefer(B[b].lines, q)

\* C19: when the input file cannot be opened the run aborts with the side
\* file unread (the cross sections keep their defaults whatever the file
\* holds) and the output file neither created nor written; when the output
\* file cannot be opened the run aborts before any input line is read. In
\* both cases the run takes no further step; and a line is only ever read,
\* and the output only ever written, once both files are open.
C19_ResourceErrorOrder ==
  /\ err = "open input" =>
       /\ pc = "Failed"
       /\ xsec = <<DefaultFidXsec, DefaultTotXsec>>
       /\ ~outOpen
       /\ outFile = <<>>
       /\ nRead = 0
       /\ ~ENABLED Next
  /\ err = "open output" =>
       /\ pc = "Failed"
       /\ ~outOpen
       /\ outFile = <<>>
       /\ nRead = 0
       /\ inEvents = <<>>
       /\ ~ENABLED Next
  /\ (nRead > 0 \/ Len(outFile) > 0) => outOpen
  /\ outOpen => err \notin {"open input", "open output"}

\* the input cannot be opened while a side file is there
C19_Witness ==
  /\ pc = "Failed"
  /\ err = "open input"
  /\ xsecFile # <<>>
  /\ xsec # xsecFile
  /\ ~outOpen

====
